---------------------------- MODULE Spec2Model ----------------------------
(***************************************************************************)
(* A model of src/process-repos.py: the extraction of commit records from  *)
(* a directory of git repositories by a pool of worker threads.            *)
(*                                                                         *)
(* Text is a sequence of one-character strings.  A list of lines is a      *)
(* sequence of lines.  The file system, the repositories and the external  *)
(* tools (git, licensee) are the environment: what they hold is fixed by   *)
(* Init, and every call of the program reads its outcome from there.       *)
(***************************************************************************)
EXTENDS Integers, Sequences, FiniteSets, TLC

VARIABLES
    args,          \* the parsed command line (argparse Namespace)
    base_exists,   \* os.path.exists(abs_base)
    listing,       \* os.listdir(abs_base): the subdirectories, in listing order
    store,         \* store[d]: d/.git is a directory
    tools,         \* which executables exist: [git, licensee]
    repoenv,       \* repoenv[d]: what git and licensee answer inside d
    out_dir_ok,    \* out_dir_ok[n]: open(<output-dir>/n.jsonl, "wb") succeeds
    out_files,     \* out_files[n]: the file <output-dir>/n.jsonl: whether it exists,
                   \* its records, and the units that opened or wrote it in this run
    main_pc,       \* where main() is
    repos,         \* main's list of discovered repositories (submission order)
    unit,          \* unit[d]: the process_repo call on d (its position and locals)
    running,       \* the units a pool worker is executing
    completed,     \* the futures in the order they finished
    first_batch,   \* the futures already finished when as_completed started
    reported,      \* the futures main has consumed, in that order
    console,       \* the outcome lines main printed, in order
    exit_status,   \* "running", or how the run ended: "zero", "nonzero"
    trunc_pc,      \* truncation harness: how many times the step was applied
    trunc_budget,  \* truncation harness: the budget
    trunc_text,    \* truncation harness: <<input, once, twice>>
    clean_pc,      \* sanitizer harness: 1 once clean_message was applied
    clean_msg,     \* sanitizer harness: the raw commit message
    clean_out      \* sanitizer harness: what clean_message returned

vars == <<args, base_exists, listing, store, tools, repoenv, out_dir_ok, out_files,
          main_pc, repos, unit, running, completed, first_batch, reported, console,
          exit_status, trunc_pc, trunc_budget, trunc_text,
          clean_pc, clean_msg, clean_out>>

pipeline_vars == <<args, base_exists, listing, store, tools, repoenv, out_dir_ok,
                   out_files, main_pc, repos, unit, running, completed, first_batch,
                   reported, console, exit_status>>

trunc_vars == <<trunc_pc, trunc_budget, trunc_text>>

clean_vars == <<clean_pc, clean_msg, clean_out>>

harness_vars == <<trunc_pc, trunc_budget, trunc_text, clean_pc, clean_msg, clean_out>>

-----------------------------------------------------------------------------
(* Bounds of the model.                                                    *)

\* the longest history a repository of the model has
MaxHist == 7
\* the longest text the truncation harness draws
MaxDiffLen == 3
\* the budgets the truncation harness draws are -BudgetSpan .. MaxDiffLen + 1
BudgetSpan == 2
\* the longest raw commit message the sanitizer harness draws
MaxMsgLen == 4

(* Constants of the program.                                               *)

\* the number of history lines of a window: history_lines[i + 1 : i + 6]
WINDOW == 5
\* the extra commits git log is asked for: -n{max_commits + 5}
LOG_EXTRA == 5
\* clamp(args.max_commits, 1, 2147483647 - 5)
INT_MAX == 2147483647
MIN_COMMITS == 1
\* DEFAULTS
DEFAULT_MAX_COMMITS == 1000
DEFAULT_MAX_DIFF_SIZE == 50000
DEFAULT_MAX_CONTRIB_SIZE == 10000
DEFAULT_THREADS == 4

-----------------------------------------------------------------------------
(* Python's text and list primitives.                                      *)

Min(a, b) == IF a <= b THEN a ELSE b
Max(a, b) == IF a >= b THEN a ELSE b

\* s[:n]: a negative n counts from the end
py_prefix(s, n) ==
    IF n >= 0 THEN SubSeq(s, 1, Min(n, Len(s)))
    ELSE SubSeq(s, 1, Max(0, Len(s) + n))

\* s[a:b] for 0 <= a <= b
py_slice(s, a, b) == SubSeq(s, a + 1, Min(b, Len(s)))

\* s.startswith(p)
startswith(s, p) == Len(s) >= Len(p) /\ SubSeq(s, 1, Len(p)) = p

UpperLetters ==
    <<"A","B","C","D","E","F","G","H","I","J","K","L","M",
      "N","O","P","Q","R","S","T","U","V","W","X","Y","Z">>
LowerLetters ==
    <<"a","b","c","d","e","f","g","h","i","j","k","l","m",
      "n","o","p","q","r","s","t","u","v","w","x","y","z">>
Digits == {"0","1","2","3","4","5","6","7","8","9"}

\* re.IGNORECASE folds the case of a letter
lower(c) ==
    IF \E k \in 1..26 : UpperLetters[k] = c
    THEN LowerLetters[CHOOSE k \in 1..26 : UpperLetters[k] = c]
    ELSE c

\* \w of a regular expression
is_word(c) ==
    \/ \E k \in 1..26 : c = UpperLetters[k] \/ c = LowerLetters[k]
    \/ c \in Digits
    \/ c = "_"

\* \s of a regular expression
is_space(c) == c \in {" ", "\t", "\n", "\r", "\f"}

\* \b before position k of s (k in 1 .. Len(s) + 1)
word_boundary(s, k) ==
    LET before == k > 1 /\ is_word(s[k - 1])
        after  == k <= Len(s) /\ is_word(s[k])
    IN  before # after

\* the literal lit (lower case) is at position k of s, whatever the case
match_nocase_at(s, k, lit) ==
    /\ k + Len(lit) - 1 <= Len(s)
    /\ \A j \in 1..Len(lit) : lower(s[k + j - 1]) = lit[j]

\* str.strip()
RECURSIVE lstrip(_)
lstrip(s) == IF s # <<>> /\ is_space(s[1]) THEN lstrip(Tail(s)) ELSE s
RECURSIVE rstrip(_)
rstrip(s) ==
    IF s # <<>> /\ is_space(s[Len(s)]) THEN rstrip(SubSeq(s, 1, Len(s) - 1)) ELSE s
strip(s) == rstrip(lstrip(s))

-----------------------------------------------------------------------------
(* The module-level patterns and helpers of process-repos.py.              *)

\* REGEX_FILTER_MERGE.match(s): ^[Mm]erge\s
REGEX_FILTER_MERGE(s) ==
    /\ Len(s) >= 6
    /\ s[1] \in {"M", "m"}
    /\ SubSeq(s, 2, 5) = <<"e","r","g","e">>
    /\ is_space(s[6])

\* REGEX_FILTER_REVERT.match(s): ^[Rr]evert\s
REGEX_FILTER_REVERT(s) ==
    /\ Len(s) >= 7
    /\ s[1] \in {"R", "r"}
    /\ SubSeq(s, 2, 6) = <<"e","v","e","r","t">>
    /\ is_space(s[7])

\* BOT_PATTERN.search(s): \b(?:bot|robot)\b|\[bot\] with re.IGNORECASE
BOT_PATTERN(s) ==
    \E k \in 1..Len(s) :
        \/ \E w \in {<<"b","o","t">>, <<"r","o","b","o","t">>} :
              /\ word_boundary(s, k)
              /\ match_nocase_at(s, k, w)
              /\ word_boundary(s, k + Len(w))
        \/ match_nocase_at(s, k, <<"[","b","o","t","]">>)

\* clamp(x, min_val, max_val)
clamp(x, min_val, max_val) == Max(min_val, Min(x, max_val))

TRUNCATED == <<".",".",".","T","R","U","N","C","A","T","E","D">>

\* lines 115-116 and 164-165: cut a text that is longer than its budget
truncate(text, budget) ==
    IF Len(text) > budget THEN py_prefix(text, budget) \o TRUNCATED ELSE text


-----------------------------------------------------------------------------
(* clean_message (lines 47-57).                                            *)

\* the position after the run of digits that starts at k
RECURSIVE digits_end(_, _)
digits_end(s, k) ==
    IF k <= Len(s) /\ s[k] \in Digits THEN digits_end(s, k + 1) ELSE k

\* the position after the run of whitespace that starts at k
RECURSIVE spaces_end(_, _)
spaces_end(s, k) ==
    IF k <= Len(s) /\ is_space(s[k]) THEN spaces_end(s, k + 1) ELSE k

\* #[0-9]+\b at k: the position after the match, or 0
issue_ref_end(s, k) ==
    LET e == digits_end(s, k + 1)
    IN  IF /\ k <= Len(s)
           /\ s[k] = "#"
           /\ e > k + 1
           /\ (e > Len(s) \/ ~is_word(s[e]))
        THEN e ELSE 0

IssueKeywords ==
    << <<"f","i","x","e","s">>, <<"c","l","o","s","e","s">>,
       <<"r","e","s","o","l","v","e","s">>, <<"r","e","l","a","t","e","d">>,
       <<"a","d","d","r","e","s","s","e","s">>, <<"a","d","d","r","e","s","s","e">> >>

\* (?i)\b(fixes|closes|resolves|related|addresses?)\s*#[0-9]+\b at k
\* (addresses? is "addresse" with an optional "s")
keyword_ref_end(s, k) ==
    LET ends == { issue_ref_end(s, spaces_end(s, k + Len(IssueKeywords[j]))) :
                    j \in { j \in 1..Len(IssueKeywords) :
                              match_nocase_at(s, k, IssueKeywords[j]) } }
        hits == ends \ {0}
    IN  IF word_boundary(s, k) /\ hits # {}
        THEN CHOOSE e \in hits : \A f \in hits : f <= e
        ELSE 0

\* \s*\(#[0-9]+\) at k
paren_ref_end(s, k) ==
    LET p == spaces_end(s, k)
        e == digits_end(s, p + 2)
    IN  IF /\ p + 1 <= Len(s)
           /\ s[p] = "("
           /\ s[p + 1] = "#"
           /\ e > p + 2
           /\ e <= Len(s)
           /\ s[e] = ")"
        THEN e + 1 ELSE 0

\* \b#[0-9]+\b at k
bare_ref_end(s, k) ==
    IF word_boundary(s, k) THEN issue_ref_end(s, k) ELSE 0

\* re.sub(pattern, "", s) for each of the three patterns: scan from k
RECURSIVE sub_keyword_ref(_, _)
sub_keyword_ref(s, k) ==
    IF k > Len(s) THEN <<>>
    ELSE IF keyword_ref_end(s, k) # 0 THEN sub_keyword_ref(s, keyword_ref_end(s, k))
    ELSE <<s[k]>> \o sub_keyword_ref(s, k + 1)

RECURSIVE sub_paren_ref(_, _)
sub_paren_ref(s, k) ==
    IF k > Len(s) THEN <<>>
    ELSE IF paren_ref_end(s, k) # 0 THEN sub_paren_ref(s, paren_ref_end(s, k))
    ELSE <<s[k]>> \o sub_paren_ref(s, k + 1)

RECURSIVE sub_bare_ref(_, _)
sub_bare_ref(s, k) ==
    IF k > Len(s) THEN <<>>
    ELSE IF bare_ref_end(s, k) # 0 THEN sub_bare_ref(s, bare_ref_end(s, k))
    ELSE <<s[k]>> \o sub_bare_ref(s, k + 1)

\* re.sub(r"\s+", " ", s)
RECURSIVE sub_spaces(_, _)
sub_spaces(s, k) ==
    IF k > Len(s) THEN <<>>
    ELSE IF is_space(s[k]) THEN <<" ">> \o sub_spaces(s, spaces_end(s, k))
    ELSE <<s[k]>> \o sub_spaces(s, k + 1)

\* str.strip(".,;:!?")
PunctChars == {".", ",", ";", ":", "!", "?"}
RECURSIVE lstrip_punct(_)
lstrip_punct(s) ==
    IF s # <<>> /\ s[1] \in PunctChars THEN lstrip_punct(Tail(s)) ELSE s
RECURSIVE rstrip_punct(_)
rstrip_punct(s) ==
    IF s # <<>> /\ s[Len(s)] \in PunctChars
    THEN rstrip_punct(SubSeq(s, 1, Len(s) - 1)) ELSE s

\* msg.strip().split("\n")[0]
RECURSIVE first_line(_)
first_line(s) ==
    IF s = <<>> \/ s[1] = "\n" THEN <<>> ELSE <<s[1]>> \o first_line(Tail(s))

clean_message(msg) ==
    IF msg = <<>> THEN <<>>
    ELSE LET subject == strip(first_line(strip(msg)))
             s1 == sub_keyword_ref(subject, 1)
             s2 == sub_paren_ref(s1, 1)
             s3 == sub_bare_ref(s2, 1)
             s4 == sub_spaces(s3, 1)
         IN  rstrip_punct(lstrip_punct(strip(s4)))

-----------------------------------------------------------------------------
(* get_repo_metadata (lines 60-101).                                       *)

NoSource == "<none>"

license_value(kind, detail) == [kind |-> kind, detail |-> detail]

\* lines 64-71: the fetch URL of the first "(fetch)" line of `git remote -v`;
\* the three handled errors leave the field out
remote_lookup(git_ok, remote) ==
    IF ~git_ok THEN NoSource                                \* FileNotFoundError
    ELSE IF remote.exc # "none" THEN NoSource               \* CalledProcessError
    ELSE LET fetch_lines == { k \in 1..Len(remote.lines) :
                                \E t \in 1..Len(remote.lines[k]) :
                                    remote.lines[k][t] = "(fetch)" }
         IN  IF fetch_lines = {} THEN NoSource
             ELSE LET line == remote.lines[CHOOSE k \in fetch_lines :
                                               \A m \in fetch_lines : k <= m]
                  IN  IF Len(line) < 2 THEN NoSource          \* IndexError
                      ELSE IF line[2] = "" THEN NoSource
                      ELSE line[2]

\* lines 74-88: [exc, license]; exc is the error that leaves get_repo_metadata
license_lookup(licensee_ok, out) ==
    IF ~licensee_ok
    THEN [exc |-> "none", license |-> license_value("Detection Failed", "FileNotFoundError")]
    ELSE IF out.json = "invalid"
    THEN [exc |-> "none", license |-> license_value("Detection Failed", "JSONDecodeError")]
    ELSE IF out.json # "object"            \* lic_data.get on a list, a string, null
    THEN [exc |-> "AttributeError", license |-> license_value("Unknown", "")]
    ELSE IF out.licenses = "absent" \/ out.licenses = "empty"
    THEN [exc |-> "none", license |-> license_value("No License", "")]
    ELSE IF out.licenses # "list"          \* lic[0].get on a character of a string
    THEN [exc |-> "AttributeError", license |-> license_value("Unknown", "")]
    ELSE IF out.spdx_id # ""
    THEN [exc |-> "none", license |-> license_value("resolved", out.spdx_id)]
    ELSE IF out.key = "absent"
    THEN [exc |-> "none", license |-> license_value("Unknown", "")]
    ELSE [exc |-> "none", license |-> license_value("resolved", out.key)]

\* lines 90-99: the first candidate that exists and can be read
RECURSIVE style_guide(_, _)
style_guide(style, k) ==
    IF k > Len(style) THEN <<>>
    ELSE IF style[k].exists /\ style[k].readable THEN style[k].content
    ELSE style_guide(style, k + 1)

\* [exc, meta, contrib_content]
get_repo_metadata(env, tls, include_license) ==
    LET source == remote_lookup(tls.git, env.remote)
        lic    == IF include_license
                  THEN license_lookup(tls.licensee, env.licensee)
                  ELSE [exc |-> "none", license |-> license_value("Unknown", "")]
    IN  [exc             |-> lic.exc,
         meta            |-> [license |-> lic.license, repo_source |-> source],
         contrib_content |-> style_guide(env.style, 1)]

-----------------------------------------------------------------------------
(* The parts of process_repo (lines 104-193) that compute.                 *)

\* h[:7] of a hash <<first seven characters, the other characters>>
abbrev(h) == h[1]

\* line 134: f"{h[:7]} {msg}"
history_line(h, msg) == [hash7 |-> abbrev(h), subject |-> msg]

\* a walk that stops at the cap: the 5 extra commits are not fetched
git_log_entries_to_cap(history, limit) ==
    [k \in 1..Min(limit - LOG_EXTRA, Len(history)) |->
        <<history[k].hash, history[k].author, history[k].subject, <<>> >>]

\* `git log -n<limit> --no-merges`: the newest `limit` commits, one entry each,
\* an entry being its fields between the NUL separators
git_log_entries(history, limit) ==
    [k \in 1..Min(limit, Len(history)) |->
        <<history[k].hash, history[k].author, history[k].subject, <<>> >>]

\* lines 127-135: the entries with at least three fields
RECURSIVE parse_entries(_)
parse_entries(entries) ==
    IF entries = <<>> THEN <<>>
    ELSE LET parts == Head(entries)
         IN  IF Len(parts) < 3 THEN parse_entries(Tail(entries))
             ELSE <<[hash    |-> parts[1],
                     author  |-> strip(parts[2]),
                     raw_msg |-> strip(parts[3])]>> \o parse_entries(Tail(entries))

history_lines_of(commits) ==
    [k \in 1..Len(commits) |-> history_line(commits[k].hash, commits[k].raw_msg)]

\* subject_rejected without the test for a revert
subject_rejected_no_revert(commit_msg) ==
    \/ REGEX_FILTER_MERGE(commit_msg)
    \/ startswith(commit_msg, <<"s","q","u","a","s","h","!">>)
    \/ startswith(commit_msg, <<"f","i","x","u","p","!">>)

\* lines 145-149: the subject is a merge, a revert, a squash or a fixup
subject_rejected(commit_msg) ==
    \/ REGEX_FILTER_MERGE(commit_msg)
    \/ REGEX_FILTER_REVERT(commit_msg)
    \/ startswith(commit_msg, <<"s","q","u","a","s","h","!">>)
    \/ startswith(commit_msg, <<"f","i","x","u","p","!">>)

\* bot_rejected that does not look at the flag
bot_rejected_always(skip_bot_commits, author) == BOT_PATTERN(author)

\* line 152
bot_rejected(skip_bot_commits, author) == skip_bot_commits /\ BOT_PATTERN(author)

\* os.path.join(abs_base, d), as the components of the path (line 279)
repo_path(d) == <<"abs_base", d>>

\* a repo_name that is the same for every repository
basename_shared(path) == "r1"

\* os.path.basename(repo_path) (line 111)
basename(path) == path[Len(path)]

\* line 112: os.path.join(args.output_dir, f"{repo_name}.jsonl"); a file of the
\* output directory is known by its name without the extension
output_file(path) == basename(path)

\* open(output_file, "ab"): what the file holds is kept
open_ab(file) == [file EXCEPT !.exists = TRUE]

\* line 139: open(output_file, "wb") creates the file, or empties it
open_wb(file) == [file EXCEPT !.exists = TRUE, !.records = <<>>]

\* the loop without the two tests at its head: every commit goes on to the
\* diff retrieval
filter_rejects_nothing(c_info, skip_bot_commits) == FALSE

\* lines 145-153: the two tests of the filter, at the head of an iteration
filter_rejects(c_info, skip_bot_commits) ==
    \/ subject_rejected(c_info.raw_msg)
    \/ bot_rejected(skip_bot_commits, c_info.author)

\* loop_bound without the cap: range(len(processed_commits))
loop_bound_uncapped(processed_commits, max_commits) == Len(processed_commits)

\* line 140: range(min(len(processed_commits), args.max_commits))
loop_bound(processed_commits, max_commits) == Min(Len(processed_commits), max_commits)

\* recent_context_of one place early: history_lines[i : i + 5]
recent_context_from_current(history_lines, i) == py_slice(history_lines, i, i + WINDOW)

\* line 155: history_lines[i + 1 : i + 6], i counted from 0
recent_context_of(history_lines, i) == py_slice(history_lines, i + 1, i + 1 + WINDOW)

\* line 173: the lines of the file list that are not blank
RECURSIVE affected_files_of(_)
affected_files_of(lines) ==
    IF lines = <<>> THEN <<>>
    ELSE IF strip(Head(lines)) = <<>> THEN affected_files_of(Tail(lines))
    ELSE <<Head(lines)>> \o affected_files_of(Tail(lines))

\* lines 175-184: the record of one commit; `commit` is the hash the record was
\* built from (c_info), kept to tell the records apart
make_entry(c_info, diff_text, recent_context, meta, contrib_content, files, mark_source) ==
    [commit                 |-> c_info.hash,
     commit_msg             |-> clean_message(c_info.raw_msg),
     change                 |-> diff_text,
     recent_commits_message |-> recent_context,
     license                |-> meta.license,
     code_style             |-> contrib_content,
     affected_files         |-> files,
     repo_source            |-> IF mark_source /\ meta.repo_source # NoSource
                                THEN meta.repo_source ELSE NoSource]

-----------------------------------------------------------------------------
(* The environment the model draws from: commits, remotes, classifier      *)
(* outputs and style-guide files.  A commit names its author, its subject, *)
(* its diff, how `git show` ends for it ("ok" or the error raised) and how *)
(* `git show --name-only` ends for it.                                     *)

Fixtures ==
    <<
       [author |-> <<"a","l">>,
        subject |-> <<"f","i","x"," ","a"," ","(","#","1",")">>,
        diff |-> <<"a","b","c">>, show |-> "ok", names |-> "ok",
        name_lines |-> <<<<"a">>, <<>>, <<"b">>>>],
       [author |-> <<"r","e","l","e","a","s","e","-","b","o","t","[","b","o","t","]">>,
        subject |-> <<"a","d","d"," ","b">>,
        diff |-> <<"a","b">>, show |-> "ok", names |-> "ok",
        name_lines |-> <<<<"a">>>>],
       [author |-> <<"a","l">>,
        subject |-> <<"M","e","r","g","e"," ","x">>,
        diff |-> <<"a","b","c">>, show |-> "ok", names |-> "ok",
        name_lines |-> <<<<"a">>, <<>>, <<"b">>>>],
       [author |-> <<"a","l">>,
        subject |-> <<"a","d","d"," ","c">>,
        diff |-> <<"a","b","c","d">>, show |-> "CalledProcessError", names |-> "ok",
        name_lines |-> <<<<"a">>>>],
       [author |-> <<"R","o","b","o","t">>,
        subject |-> <<"r","e","v","e","r","t"," ","x">>,
        diff |-> <<"a","b">>, show |-> "ok", names |-> "ok",
        name_lines |-> <<<<"a">>, <<>>, <<"b">>>>],
       [author |-> <<"a","l">>,
        subject |-> <<"f","i","x","u","p","!"," ","a">>,
        diff |-> <<"a","b","c">>, show |-> "ok", names |-> "ok",
        name_lines |-> <<<<"a">>>>],
       [author |-> <<"d","e","p","e","n","d","a","b","o","t">>,
        subject |-> <<"M","e","r","g","e","d"," ","x">>,
        diff |-> <<"a","b","c">>, show |-> "ok", names |-> "CalledProcessError",
        name_lines |-> <<<<"a">>, <<>>, <<"b">>>>],
       [author |-> <<"a","l">>,
        subject |-> <<"s","q","u","a","s","h","!"," ","a">>,
        diff |-> <<"a","b">>, show |-> "ok", names |-> "ok",
        name_lines |-> <<<<"a">>>>],
       [author |-> <<"c","i"," ","b","o","t">>,
        subject |-> <<"m","e","r","g","e","\t","x">>,
        diff |-> <<"a","b","c">>, show |-> "ok", names |-> "ok",
        name_lines |-> <<<<"a">>, <<>>, <<"b">>>>],
       [author |-> <<"a","l">>,
        subject |-> <<"a","d","d"," ","d">>,
        diff |-> <<"a","b","c","d">>, show |-> "ok", names |-> "UnicodeDecodeError",
        name_lines |-> <<<<"a">>>>],
       [author |-> <<"R","o","b","o","t">>,
        subject |-> <<"a","d","d"," ","e">>,
        diff |-> <<"a","b","c","d">>, show |-> "ok", names |-> "ok",
        name_lines |-> <<<<"a">>, <<>>, <<"b">>>>]
    >>

\* a history of n commits, newest first: the fixtures in turn, from `off` on
history(n, off) ==
    [k \in 1..n |->
        LET c == Fixtures[((k - 1 + off) % Len(Fixtures)) + 1]
        IN  [hash |-> <<k, "rest">>, author |-> c.author, subject |-> c.subject,
             diff |-> c.diff, show |-> c.show, names |-> c.names,
             name_lines |-> c.name_lines]]

\* `git remote -v`: the error it ends with, or its lines as lists of words
RemoteOrigin ==
    [exc |-> "none",
     lines |-> << <<"origin", "https://host/r.git", "(fetch)">>,
                  <<"origin", "https://host/r.git", "(push)">> >>]
Remotes ==
    { RemoteOrigin,
      [exc |-> "none", lines |-> <<>>],
      [exc |-> "none", lines |-> << <<"(fetch)">> >>],
      [exc |-> "CalledProcessError", lines |-> <<>>] }

\* the standard output of `licensee detect --json`: not JSON, JSON that is no
\* object, or an object and what its "licenses" holds
licensee_out(json, licenses, spdx_id, key) ==
    [json |-> json, licenses |-> licenses, spdx_id |-> spdx_id, key |-> key]
LicenseeMIT == licensee_out("object", "list", "MIT", "mit")
LicenseeOutputs ==
    { LicenseeMIT,
      licensee_out("object", "list", "", "other"),
      licensee_out("object", "list", "", "absent"),
      licensee_out("object", "empty", "", "absent"),
      licensee_out("object", "absent", "", "absent"),
      licensee_out("object", "string", "", "absent"),
      licensee_out("array", "absent", "", "absent"),
      licensee_out("invalid", "absent", "", "absent") }

\* CONTRIBUTING.md, .github/CONTRIBUTING.md, STYLEGUIDE.md
style_file(exists, readable, content) ==
    [exists |-> exists, readable |-> readable, content |-> content]
NoStyleFile == style_file(FALSE, FALSE, <<>>)
StyleNone == <<NoStyleFile, NoStyleFile, NoStyleFile>>
Styles ==
    { StyleNone,
      <<style_file(TRUE, TRUE, <<"u","s","e"," ","t","a","b","s">>), NoStyleFile, NoStyleFile>>,
      <<style_file(TRUE, FALSE, <<>>), NoStyleFile, style_file(TRUE, TRUE, <<"o","k">>)>> }

repo_env(hist, remote, licensee, style) ==
    [history |-> hist, remote |-> remote, licensee |-> licensee, style |-> style]

Dirs == {"r1", "r2", "d3"}

\* an output file: whether it exists, the records it holds, and the units that
\* opened or wrote it in this run
Absent == [exists |-> FALSE, records |-> <<>>, writers |-> {}]
file_with(records) == [exists |-> TRUE, records |-> records, writers |-> {}]

\* what an output file of an earlier run holds
StaleFile ==
    file_with(<< make_entry([hash |-> <<0, "rest">>, raw_msg |-> <<"o","l","d">>], <<"z">>, <<>>,
                  [license |-> license_value("Unknown", ""), repo_source |-> NoSource],
                  <<>>, <<>>, FALSE) >>)

arguments(max_commits, max_diff_size, max_contrib_size, threads, skip_bot, mark_source, include_license) ==
    [max_commits |-> max_commits, max_diff_size |-> max_diff_size,
     max_contrib_size |-> max_contrib_size, threads |-> threads,
     skip_bot_commits |-> skip_bot, mark_source |-> mark_source,
     include_license |-> include_license]

NoResult == [kind |-> "none", head |-> "", count |-> 0, exc |-> ""]
returned(head, count) == [kind |-> "returned", head |-> head, count |-> count, exc |-> ""]
raised(exc) == [kind |-> "raised", head |-> "", count |-> 0, exc |-> exc]

IdleUnit ==
    [pc |-> "idle",
     meta |-> [license |-> license_value("Unknown", ""), repo_source |-> NoSource],
     contrib_content |-> <<>>, processed_commits |-> <<>>, history_lines |-> <<>>,
     i |-> 0, count |-> 0, recent_context |-> <<>>, diff_text |-> <<>>,
     diff_calls |-> <<>>,    \* the hashes `git show` was issued for, in order
     files_calls |-> <<>>,   \* the hashes `git show --name-only` was issued for
     result |-> NoResult]

-----------------------------------------------------------------------------
(* The initial states: a command line, a base directory and its            *)
(* repositories.  Four families of runs, each varying what its name says.  *)

DefaultArgs ==
    arguments(DEFAULT_MAX_COMMITS, DEFAULT_MAX_DIFF_SIZE, DEFAULT_MAX_CONTRIB_SIZE,
              DEFAULT_THREADS, FALSE, FALSE, FALSE)

PlainEnv == repo_env(history(1, 0), RemoteOrigin, LicenseeMIT, StyleNone)

world(a, base, ls, st, tl, envs, writable, files) ==
    [args |-> a, base_exists |-> base, listing |-> ls, store |-> st, tools |-> tl,
     repoenv |-> envs, out_dir_ok |-> writable, out_files |-> files]

AllTools == [git |-> TRUE, licensee |-> TRUE]
OneRepoStore == [d \in Dirs |-> d = "r1"]
Writable == [d \in Dirs |-> TRUE]
NoFiles == [d \in Dirs |-> Absent]

\* one repository; its history, the commit cap, the bot filter and the diff budget vary
HistoryRuns ==
    { world([DefaultArgs EXCEPT !.max_commits = m, !.skip_bot_commits = b,
                                !.max_diff_size = ds, !.threads = 1],
            TRUE, <<"r1">>, OneRepoStore, AllTools,
            [d \in Dirs |-> repo_env(history(n, off), RemoteOrigin, LicenseeMIT, StyleNone)],
            Writable, NoFiles) :
        n \in 0..MaxHist, off \in 0..(Len(Fixtures) - 1), m \in {0, 2, INT_MAX},
        b \in BOOLEAN, ds \in {2, DEFAULT_MAX_DIFF_SIZE} }

\* one repository of one commit; the tools, their answers and the metadata flags vary
MetadataRuns ==
    { world([DefaultArgs EXCEPT !.include_license = il, !.mark_source = ms,
                                !.max_contrib_size = cs, !.max_diff_size = -1],
            TRUE, <<"r1">>, OneRepoStore, tl,
            [d \in Dirs |-> repo_env(history(1, 0), r, l, sg)],
            Writable, NoFiles) :
        il \in BOOLEAN, ms \in BOOLEAN, cs \in {2, DEFAULT_MAX_CONTRIB_SIZE},
        tl \in [git : BOOLEAN, licensee : BOOLEAN],
        r \in Remotes, l \in LicenseeOutputs, sg \in Styles }

\* two repositories and a plain directory; the pool width, the histories, the
\* classifier's answer for r2 and r1's output file vary
PoolHistories == { history(0, 0), history(1, 0), history(2, 8), history(1, 9) }
PoolRuns ==
    { world([DefaultArgs EXCEPT !.threads = th, !.include_license = il],
            TRUE, <<"r1", "r2", "d3">>, [d \in Dirs |-> d # "d3"], AllTools,
            [d \in Dirs |-> IF d = "r1" THEN repo_env(h1, RemoteOrigin, LicenseeMIT, StyleNone)
                            ELSE repo_env(h2, RemoteOrigin,
                                          licensee_out("array", "absent", "", "absent"),
                                          StyleNone)],
            [d \in Dirs |-> d # "r1" \/ w], [d \in Dirs |-> IF d = "r1" THEN f ELSE Absent]) :
        th \in {1, 2}, il \in BOOLEAN, h1 \in PoolHistories, h2 \in PoolHistories,
        w \in BOOLEAN, f \in {Absent, StaleFile} }

\* the base directory, its listing and the pool width vary
DiscoveryRuns ==
    { world([DefaultArgs EXCEPT !.threads = th], base, ls, [d \in Dirs |-> d \in st],
            AllTools, [d \in Dirs |-> PlainEnv], Writable, NoFiles) :
        th \in {-1, 0, 1}, base \in BOOLEAN,
        ls \in {<<>>, <<"d3">>, <<"r1">>, <<"d3", "r2">>}, st \in {{"r1", "r2"}} }

Worlds == HistoryRuns \cup MetadataRuns \cup PoolRuns \cup DiscoveryRuns

harness_idle ==
    /\ trunc_pc = 0
    /\ trunc_budget = 0
    /\ trunc_text = <<>>

clean_idle ==
    /\ clean_pc = 0
    /\ clean_msg = <<>>
    /\ clean_out = <<>>

pipeline_init(w) ==
    /\ args = w.args
    /\ base_exists = w.base_exists
    /\ listing = w.listing
    /\ store = w.store
    /\ tools = w.tools
    /\ repoenv = w.repoenv
    /\ out_dir_ok = w.out_dir_ok
    /\ out_files = w.out_files
    /\ main_pc = "start"
    /\ repos = <<>>
    /\ unit = [d \in Dirs |-> IdleUnit]
    /\ running = {}
    /\ completed = <<>>
    /\ first_batch = {}
    /\ reported = <<>>
    /\ console = <<>>
    /\ exit_status = "running"

Init ==
    /\ \E w \in Worlds : pipeline_init(w)
    /\ harness_idle
    /\ clean_idle

-----------------------------------------------------------------------------
(* main (lines 196-301).                                                   *)

range(seq) == { seq[k] : k \in 1..Len(seq) }

\* the way main leaves: sys.exit(1) and an uncaught error end the run non-zero
main_exits(status) ==
    /\ main_pc' = "exited"
    /\ exit_status' = status

\* lines 264-289: clamp the cap, find the repositories, create the pool and
\* submit one process_repo call for each repository
main_discover ==
    /\ main_pc = "start"
    /\ args' = [args EXCEPT !.max_commits = clamp(@, MIN_COMMITS, INT_MAX - LOG_EXTRA)]
    /\ LET has_store(d) == store[d]
           found == SelectSeq(listing, has_store)
       IN  IF ~base_exists \/ found = <<>>
           THEN /\ main_exits("nonzero")                    \* sys.exit(1)
                /\ UNCHANGED <<repos, unit>>
           ELSE IF args.threads <= 0
           THEN /\ main_exits("nonzero")                    \* ValueError: max_workers
                /\ repos' = found
                /\ UNCHANGED unit
           ELSE /\ main_pc' = "submitted"
                /\ repos' = found
                /\ unit' = [d \in Dirs |->
                              IF d \in range(found) THEN [unit[d] EXCEPT !.pc = "queued"]
                              ELSE unit[d]]
                /\ UNCHANGED exit_status
    /\ UNCHANGED harness_vars
    /\ UNCHANGED <<base_exists, listing, store, tools, repoenv, out_dir_ok, out_files,
                   running, completed, first_batch, reported, console>>

\* lines 290-295: as_completed starts; the futures that are finished by now are
\* handed out first, in no particular order
main_as_completed ==
    /\ main_pc = "submitted"
    /\ main_pc' = "collecting"
    /\ first_batch' = range(completed)
    /\ UNCHANGED harness_vars
    /\ UNCHANGED <<args, base_exists, listing, store, tools, repoenv, out_dir_ok,
                   out_files, repos, unit, running, completed, reported, console,
                   exit_status>>

\* the futures as_completed may hand out next: any of the first batch, then the
\* others in the order they finish
next_futures ==
    LET todo == first_batch \ range(reported)
        later == { k \in 1..Len(completed) : completed[k] \notin range(reported) }
    IN  IF todo # {} THEN todo
        ELSE IF later = {} THEN {}
        ELSE { completed[CHOOSE k \in later : \A m \in later : k <= m] }

\* consume without the except clause: the error of a future leaves main
consume_unhandled(res) ==
    [line |-> [head |-> res.head, count |-> res.count, exc |-> ""],
     propagates |-> res.kind = "raised"]

\* lines 296-301: what main does with a future: the line it prints, and whether
\* the error of the future leaves main
consume(res) ==
    IF res.kind = "raised"
    THEN [line |-> [head |-> "Critical Thread Failure", count |-> 0, exc |-> res.exc],
          propagates |-> FALSE]
    ELSE [line |-> [head |-> res.head, count |-> res.count, exc |-> ""],
          propagates |-> FALSE]

main_report(d) ==
    /\ main_pc = "collecting"
    /\ d \in next_futures
    /\ reported' = Append(reported, d)
    /\ LET c == consume(unit[d].result)
       IN  IF c.propagates
           THEN /\ main_exits("nonzero")
                /\ UNCHANGED console
           ELSE /\ console' = Append(console, c.line)
                /\ UNCHANGED <<main_pc, exit_status>>
    /\ UNCHANGED harness_vars
    /\ UNCHANGED <<args, base_exists, listing, store, tools, repoenv, out_dir_ok,
                   out_files, repos, unit, running, completed, first_batch>>

\* the end of the with block (line 288) and of main: every future was handed out
main_return ==
    /\ main_pc = "collecting"
    /\ Len(reported) = Len(repos)
    /\ main_exits("zero")
    /\ UNCHANGED harness_vars
    /\ UNCHANGED <<args, base_exists, listing, store, tools, repoenv, out_dir_ok,
                   out_files, repos, unit, running, completed, first_batch, reported,
                   console>>

-----------------------------------------------------------------------------
(* The pool's workers running process_repo (lines 104-193).                *)

\* the call on d ends: the future is finished and the worker is free
finished(d, res) ==
    /\ unit' = [unit EXCEPT ![d].pc = "done", ![d].result = res]
    /\ running' = running \ {d}
    /\ completed' = Append(completed, d)

\* the call on d goes on with the locals changed as `u` says
goes_on(d, u) ==
    /\ unit' = [unit EXCEPT ![d] = u]
    /\ running' = running \cup {d}
    /\ UNCHANGED completed

\* the commit of the repository that c_info was read from
commit_of(d, c_info) ==
    CHOOSE c \in range(repoenv[d].history) : c.hash = c_info.hash

\* a free worker takes the oldest queued call; lines 107-112
process_repo_begin(d) ==
    /\ main_pc \in {"submitted", "collecting"}
    /\ unit[d].pc = "queued"
    /\ Cardinality(running) < args.threads
    /\ \A k \in 1..Len(repos) :
          repos[k] = d => \A m \in 1..(k - 1) : unit[repos[m]].pc # "queued"
    /\ IF store[d]
       THEN goes_on(d, [unit[d] EXCEPT !.pc = "meta"])
       ELSE finished(d, returned("Skipped", 0))
    /\ UNCHANGED harness_vars
    /\ UNCHANGED <<args, base_exists, listing, store, tools, repoenv, out_dir_ok,
                   out_files, main_pc, repos, first_batch, reported, console,
                   exit_status>>

\* lines 114-116
process_repo_metadata(d) ==
    /\ unit[d].pc = "meta"
    /\ LET r == get_repo_metadata(repoenv[d], tools, args.include_license)
       IN  IF r.exc # "none"
           THEN finished(d, raised(r.exc))
           ELSE goes_on(d, [unit[d] EXCEPT
                    !.pc = "log",
                    !.meta = r.meta,
                    !.contrib_content = truncate(r.contrib_content, args.max_contrib_size)])
    /\ UNCHANGED harness_vars
    /\ UNCHANGED <<args, base_exists, listing, store, tools, repoenv, out_dir_ok,
                   out_files, main_pc, repos, first_batch, reported, console,
                   exit_status>>

\* lines 119-137: git log ends non-zero in a repository without a commit, and
\* cannot be started where git is missing
process_repo_log(d) ==
    /\ unit[d].pc = "log"
    /\ IF ~tools.git
       THEN finished(d, raised("FileNotFoundError"))
       ELSE IF repoenv[d].history = <<>>
       THEN finished(d, returned("Error running git log", 0))
       ELSE LET commits == parse_entries(
                               git_log_entries(repoenv[d].history,
                                               args.max_commits + LOG_EXTRA))
            IN  goes_on(d, [unit[d] EXCEPT
                    !.pc = "open",
                    !.processed_commits = commits,
                    !.history_lines = history_lines_of(commits),
                    !.count = 0])
    /\ UNCHANGED harness_vars
    /\ UNCHANGED <<args, base_exists, listing, store, tools, repoenv, out_dir_ok,
                   out_files, main_pc, repos, first_batch, reported, console,
                   exit_status>>

\* lines 138-139 and 190-191: open(output_file, "wb")
process_repo_open(d) ==
    /\ unit[d].pc = "open"
    /\ IF out_dir_ok[output_file(repo_path(d))]
       THEN /\ goes_on(d, [unit[d] EXCEPT !.pc = "loop", !.i = 0])
            /\ out_files' = [out_files EXCEPT ![output_file(repo_path(d))] =
                                [open_wb(out_files[output_file(repo_path(d))])
                                    EXCEPT !.writers = @ \cup {d}]]
       ELSE /\ finished(d, returned("File Error", 0))
            /\ UNCHANGED out_files
    /\ UNCHANGED harness_vars
    /\ UNCHANGED <<args, base_exists, listing, store, tools, repoenv, out_dir_ok,
                   main_pc, repos, first_batch, reported, console, exit_status>>

\* lines 140-155 and 193: the head of one iteration, the filter and the window;
\* after the last iteration the file is closed and the count returned
process_repo_next_commit(d) ==
    /\ unit[d].pc = "loop"
    /\ LET u == unit[d]
       IN  IF u.i < loop_bound(u.processed_commits, args.max_commits)
           THEN LET c_info == u.processed_commits[u.i + 1]
                IN  IF filter_rejects(c_info, args.skip_bot_commits)
                    THEN goes_on(d, [u EXCEPT !.i = u.i + 1])
                    ELSE goes_on(d, [u EXCEPT
                             !.pc = "show",
                             !.recent_context = recent_context_of(u.history_lines, u.i)])
           ELSE finished(d, returned("Extracted", u.count))
    /\ UNCHANGED harness_vars
    /\ UNCHANGED <<args, base_exists, listing, store, tools, repoenv, out_dir_ok,
                   out_files, main_pc, repos, first_batch, reported, console,
                   exit_status>>

\* lines 156-165 and 188-189: git show of the commit, cut to the budget
process_repo_show(d) ==
    /\ unit[d].pc = "show"
    /\ LET u == unit[d]
           c == commit_of(d, u.processed_commits[u.i + 1])
           issued == Append(u.diff_calls, c.hash)
       IN  IF c.show = "ok"
           THEN goes_on(d, [u EXCEPT
                    !.pc = "names",
                    !.diff_calls = issued,
                    !.diff_text = truncate(c.diff, args.max_diff_size)])
           ELSE goes_on(d, [u EXCEPT !.pc = "loop", !.i = u.i + 1,
                                     !.diff_calls = issued])
    /\ UNCHANGED harness_vars
    /\ UNCHANGED <<args, base_exists, listing, store, tools, repoenv, out_dir_ok,
                   out_files, main_pc, repos, first_batch, reported, console,
                   exit_status>>

\* lines 167-189: git show --name-only of the commit, then the record is
\* built and written; the text of the file list is decoded strictly
process_repo_names(d) ==
    /\ unit[d].pc = "names"
    /\ LET u == unit[d]
           c_info == u.processed_commits[u.i + 1]
           c == commit_of(d, c_info)
           issued == Append(u.files_calls, c.hash)
       IN  IF c.names = "ok"
           THEN /\ goes_on(d, [u EXCEPT !.pc = "loop", !.i = u.i + 1,
                                        !.files_calls = issued,
                                        !.count = u.count + 1])
                /\ out_files' = [out_files EXCEPT
                       ![output_file(repo_path(d))].writers = @ \cup {d},
                       ![output_file(repo_path(d))].records =
                           Append(@, make_entry(c_info, u.diff_text, u.recent_context,
                                                u.meta, u.contrib_content,
                                                affected_files_of(c.name_lines),
                                                args.mark_source))]
           ELSE IF c.names = "CalledProcessError"
           THEN /\ goes_on(d, [u EXCEPT !.pc = "loop", !.i = u.i + 1,
                                        !.files_calls = issued])
                /\ UNCHANGED out_files
           ELSE /\ unit' = [unit EXCEPT ![d].pc = "done", ![d].files_calls = issued,
                                        ![d].result = raised(c.names)]
                /\ running' = running \ {d}
                /\ completed' = Append(completed, d)
                /\ UNCHANGED out_files
    /\ UNCHANGED harness_vars
    /\ UNCHANGED <<args, base_exists, listing, store, tools, repoenv, out_dir_ok,
                   main_pc, repos, first_batch, reported, console, exit_status>>

\* the environment: a repository's store goes away after main has seen it
store_removed(d) ==
    /\ main_pc \in {"submitted", "collecting"}
    /\ unit[d].pc = "queued"
    /\ store[d]
    /\ store' = [store EXCEPT ![d] = FALSE]
    /\ UNCHANGED harness_vars
    /\ UNCHANGED <<args, base_exists, listing, tools, repoenv, out_dir_ok, out_files,
                   main_pc, repos, unit, running, completed, first_batch, reported,
                   console, exit_status>>

Next ==
    \/ main_discover
    \/ main_as_completed
    \/ \E d \in Dirs : main_report(d)
    \/ main_return
    \/ \E d \in Dirs : process_repo_begin(d)
    \/ \E d \in Dirs : process_repo_metadata(d)
    \/ \E d \in Dirs : process_repo_log(d)
    \/ \E d \in Dirs : process_repo_open(d)
    \/ \E d \in Dirs : process_repo_next_commit(d)
    \/ \E d \in Dirs : process_repo_show(d)
    \/ \E d \in Dirs : process_repo_names(d)
    \/ \E d \in Dirs : store_removed(d)

Spec == Init /\ [][Next]_vars

-----------------------------------------------------------------------------
(* The truncation step on its own: lines 164-165 applied to a text, and    *)
(* again to its result, with one budget.                                   *)

RECURSIVE texts(_)
texts(n) ==
    IF n = 0 THEN {<<>>}
    ELSE texts(n - 1) \cup { Append(t, c) : t \in { x \in texts(n - 1) : Len(x) = n - 1 }, c \in {"a", "b"} }

TruncInit ==
    /\ pipeline_init(world(DefaultArgs, TRUE, <<>>, [d \in Dirs |-> FALSE], AllTools,
                           [d \in Dirs |-> PlainEnv], Writable, NoFiles))
    /\ trunc_pc = 0
    /\ trunc_budget \in (0 - BudgetSpan)..(MaxDiffLen + 1)
    /\ \E t \in texts(MaxDiffLen) : trunc_text = <<t, <<>>, <<>>>>
    /\ clean_idle

truncate_once ==
    /\ trunc_pc = 0
    /\ trunc_pc' = 1
    /\ trunc_text' = [trunc_text EXCEPT ![2] = truncate(trunc_text[1], trunc_budget)]
    /\ UNCHANGED trunc_budget
    /\ UNCHANGED clean_vars
    /\ UNCHANGED pipeline_vars

truncate_again ==
    /\ trunc_pc = 1
    /\ trunc_pc' = 2
    /\ trunc_text' = [trunc_text EXCEPT ![3] = truncate(trunc_text[2], trunc_budget)]
    /\ UNCHANGED trunc_budget
    /\ UNCHANGED clean_vars
    /\ UNCHANGED pipeline_vars

TruncNext ==
    \/ truncate_once
    \/ truncate_again

SpecTrunc == TruncInit /\ [][TruncNext]_vars

-----------------------------------------------------------------------------
(* clean_message on its own: line 176 applied to a raw commit message.     *)

\* the characters of the raw messages: a word character, the parts of an
\* issue reference, whitespace, a line break and trailing punctuation
MsgChars == {"a", "#", "4", " ", ".", "\n"}

RECURSIVE messages(_)
messages(n) ==
    IF n = 0 THEN {<<>>}
    ELSE messages(n - 1) \cup
         { Append(t, c) : t \in { x \in messages(n - 1) : Len(x) = n - 1 }, c \in MsgChars }

CleanInit ==
    /\ pipeline_init(world(DefaultArgs, TRUE, <<>>, [d \in Dirs |-> FALSE], AllTools,
                           [d \in Dirs |-> PlainEnv], Writable, NoFiles))
    /\ harness_idle
    /\ clean_pc = 0
    /\ clean_msg \in messages(MaxMsgLen)
    /\ clean_out = <<>>

clean_message_call ==
    /\ clean_pc = 0
    /\ clean_pc' = 1
    /\ clean_out' = clean_message(clean_msg)
    /\ UNCHANGED clean_msg
    /\ UNCHANGED trunc_vars
    /\ UNCHANGED pipeline_vars

CleanNext ==
    \/ clean_message_call

SpecClean == CleanInit /\ [][CleanNext]_vars

-----------------------------------------------------------------------------
(* What the claims speak of.                                               *)

\* the call on d opened its output file: it is in its loop, or it left it
entered_loop(d) ==
    \/ unit[d].pc \in {"loop", "show", "names"}
    \/ unit[d].pc = "done" /\ unit[d].processed_commits # <<>> /\ out_dir_ok[d]

\* the repository's commits as git walks them, newest first
walked(d) == repoenv[d].history

\* the position in the walk of the commit with hash h
position(d, h) == CHOOSE k \in 1..Len(walked(d)) : walked(d)[k].hash = h

\* the iterations of d's loop that are over: the walk's positions 1 .. i
iterations_over(d) == 1..unit[d].i

has_record(d, k) ==
    \E n \in 1..Len(out_files[d].records) :
        out_files[d].records[n].commit = walked(d)[k].hash

failed(res) ==
    \/ res.kind = "raised"
    \/ res.kind = "returned" /\ res.head # "Extracted"

\* C1: failure isolation.  In a run of two or more repositories in which a unit
\* failed (a skip or error outcome, or an error raised inside process_repo): the
\* failure does not end main; each future main has taken is printed as its own
\* line, a raised error as a critical line at that future's place only; a unit
\* that ended holds no worker, so a queued sibling has a free worker or one
\* still running a call; and when main returns every unit has run to its end
\* and every sibling that extracted holds its own records in its file.
C1_FailureIsolated ==
    (Len(repos) >= 2 /\ \E d \in range(repos) : failed(unit[d].result)) =>
        /\ exit_status # "nonzero"
        /\ Len(console) = Len(reported)
        /\ \A n \in 1..Len(reported) :
              LET res == unit[reported[n]].result
              IN  /\ (console[n].head = "Critical Thread Failure") <=> (res.kind = "raised")
                  /\ res.kind = "raised" => console[n].exc = res.exc
                  /\ res.kind = "returned" =>
                        console[n].head = res.head /\ console[n].count = res.count
        /\ \A d \in range(repos) :
              /\ unit[d].pc = "done" => d \notin running
              /\ unit[d].pc = "queued" =>
                    \/ Cardinality(running) < args.threads
                    \/ \E e \in running : unit[e].pc \in {"meta", "log", "open", "loop", "show", "names"}
        /\ exit_status = "zero" =>
              \A d \in range(repos) :
                  /\ unit[d].pc = "done"
                  /\ d \in range(reported)
                  /\ (unit[d].result.head = "Extracted") =>
                        /\ out_files[d].exists
                        /\ Len(out_files[d].records) = unit[d].result.count
                        /\ \A n \in 1..Len(out_files[d].records) :
                              \E k \in 1..Len(walked(d)) :
                                  /\ out_files[d].records[n].commit = walked(d)[k].hash
                                  /\ out_files[d].records[n].commit_msg =
                                         clean_message(walked(d)[k].subject)

\* C1's case: the run of two repositories ended; one unit raised, the other
\* extracted a record
C1_Witness ==
    /\ exit_status = "zero"
    /\ Len(repos) >= 2
    /\ \E d \in range(repos), e \in range(repos) :
          /\ unit[d].result.kind = "raised"
          /\ unit[e].result.head = "Extracted"
          /\ unit[e].result.count >= 1
          /\ Len(out_files[e].records) >= 1

\* C2: the records process_repo writes for a repository are never more than
\* max-commits (as clamped), every record is of one of the max-commits newest
\* walked commits, and so is the commit a diff is being retrieved for.
C2_AtMostMaxCommits ==
    \A d \in Dirs :
        entered_loop(d) =>
            /\ Len(out_files[d].records) <= args.max_commits
            /\ \A n \in 1..Len(out_files[d].records) :
                  position(d, out_files[d].records[n].commit) <= args.max_commits
            /\ unit[d].pc \in {"show", "names"} => unit[d].i + 1 <= args.max_commits

\* C2's case: the walk is longer than max-commits and the unit wrote
\* max-commits records
C2_Witness ==
    \E d \in Dirs :
        /\ unit[d].result.head = "Extracted"
        /\ Len(unit[d].processed_commits) > args.max_commits
        /\ Len(out_files[d].records) = args.max_commits

\* C3: the window of every record written has at most 5 lines, its line j is
\* the line of the walked commit j places after the record's own, and no line is
\* the line of the record's commit or of a newer one.
C3_WindowOlderOnly ==
    \A d \in Dirs :
        entered_loop(d) =>
            \A n \in 1..Len(out_files[d].records) :
                LET rec == out_files[d].records[n]
                    p == position(d, rec.commit)
                    w == rec.recent_commits_message
                    line_of(k) == [hash7 |-> walked(d)[k].hash[1],
                                   subject |-> strip(walked(d)[k].subject)]
                IN  /\ Len(w) <= 5
                    /\ \A j \in 1..Len(w) :
                          /\ p + j <= Len(walked(d))
                          /\ w[j] = line_of(p + j)
                          /\ \A k \in 1..p : w[j] # line_of(k)

\* C3's case: a record with a full window of 5 lines, written where a sixth
\* older commit was walked
C3_Witness ==
    \E d \in Dirs :
        \E n \in 1..Len(out_files[d].records) :
            /\ entered_loop(d)
            /\ Len(out_files[d].records[n].recent_commits_message) = 5
            /\ Len(unit[d].processed_commits) >
                   position(d, out_files[d].records[n].commit) + 5

\* the subjects C8 names: 'Merge ' or 'Revert ' with the first letter in either
\* case, 'squash!', 'fixup!'
named_in_C8(subject) ==
    \/ startswith(subject, <<"M","e","r","g","e"," ">>)
    \/ startswith(subject, <<"m","e","r","g","e"," ">>)
    \/ startswith(subject, <<"R","e","v","e","r","t"," ">>)
    \/ startswith(subject, <<"r","e","v","e","r","t"," ">>)
    \/ startswith(subject, <<"s","q","u","a","s","h","!">>)
    \/ startswith(subject, <<"f","i","x","u","p","!">>)

\* C8: no record is of a commit whose subject starts with 'Merge ' or
\* 'Revert ' (first letter in either case), with 'squash!' or with 'fixup!',
\* with the bot filter on or off and whoever the author is.
C8_MergeRevertNeverRecorded ==
    \A d \in Dirs :
        entered_loop(d) =>
            \A k \in 1..Len(walked(d)) :
                named_in_C8(strip(walked(d)[k].subject)) => ~has_record(d, k)

\* C8's case: with the bot filter off the loop went past a revert commit of a
\* bot author and wrote a record of another commit
C8_Witness ==
    \E d \in Dirs :
        /\ entered_loop(d)
        /\ ~args.skip_bot_commits
        /\ Len(out_files[d].records) >= 1
        /\ \E k \in iterations_over(d) :
              /\ named_in_C8(walked(d)[k].subject)
              /\ BOT_PATTERN(walked(d)[k].author)

\* C9: a candidate whose iteration is over, whose subject passes the
\* merge/revert/squash/fixup filter, whose author is a bot name and whose diff
\* and file list git returns has a record if and only if skip-bot-commits is off.
C9_BotRecordedIffNotSkipped ==
    \A d \in Dirs :
        entered_loop(d) =>
            \A k \in iterations_over(d) :
                LET c == walked(d)[k]
                IN  ( /\ ~subject_rejected(strip(c.subject))
                      /\ BOT_PATTERN(strip(c.author))
                      /\ c.show = "ok"
                      /\ c.names = "ok" ) =>
                        (has_record(d, k) <=> ~args.skip_bot_commits)

\* C9's case: with the filter off, a record of a commit of release-bot[bot]
C9_Witness ==
    \E d \in Dirs :
        \E k \in iterations_over(d) :
            /\ entered_loop(d)
            /\ ~args.skip_bot_commits
            /\ ~subject_rejected(walked(d)[k].subject)
            /\ match_nocase_at(walked(d)[k].author, 12, <<"[","b","o","t","]">>)
            /\ has_record(d, k)

\* the call on d reached its loop and ended
loop_ended(d) == unit[d].pc = "done" /\ entered_loop(d)

\* the commit at position k of the walk is one the loop writes a record for
\* when nothing fails: a candidate the filter accepts
accepted(d, k) ==
    /\ k <= loop_bound(walked(d), args.max_commits)
    /\ ~subject_rejected(strip(walked(d)[k].subject))
    /\ ~bot_rejected(args.skip_bot_commits, strip(walked(d)[k].author))

retrievable(d, k) == walked(d)[k].show = "ok" /\ walked(d)[k].names = "ok"

\* C4: a failure of a per-commit step (the diff or the file list of one commit)
\* skips that commit only: a unit that reached its loop returns 'Extracted N',
\* and its file holds a record of every accepted candidate whose diff and file
\* list were retrieved, and of no other commit.
C4_CommitFailureSkipsCommitOnly ==
    \A d \in Dirs :
        loop_ended(d) =>
            /\ unit[d].result.kind = "returned"
            /\ unit[d].result.head = "Extracted"
            /\ \A k \in 1..Len(walked(d)) :
                  has_record(d, k) <=> (accepted(d, k) /\ retrievable(d, k))

LicenseKinds == {"resolved", "Unknown", "No License", "Detection Failed"}

\* C5: metadata resolution never aborts a unit: from the metadata step
\* process_repo goes on to walk the history, with a license that is a resolved
\* identifier, "Unknown", "No License" or "Detection Failed: <ErrorKind>", and
\* with "Detection Failed" when the classifier's output is malformed.
C5_MetadataNeverAborts ==
    [][\A d \in Dirs :
          (unit[d].pc = "meta" /\ unit'[d] # unit[d]) =>
              /\ unit'[d].pc = "log"
              /\ unit'[d].meta.license.kind \in LicenseKinds
              /\ ( /\ args.include_license
                   /\ tools.licensee
                   /\ \/ repoenv[d].licensee.json # "object"
                      \/ repoenv[d].licensee.licenses = "string" ) =>
                     unit'[d].meta.license.kind = "Detection Failed"]_vars

\* C6: a unit that fails before its loop, for want of a store or because the
\* history cannot be listed, returns a skip or error outcome and leaves the
\* repository's output file as it was.
C6_EarlyFailureReturnsOutcome ==
    [][\A d \in Dirs :
          (unit[d].pc \in {"queued", "log"} /\ unit'[d].pc = "done") =>
              /\ unit'[d].result.kind = "returned"
              /\ unit'[d].result.head \in {"Skipped", "Error running git log"}
              /\ out_files'[d] = out_files[d]]_vars

\* the place of future d in the order of completion
completion_rank(d) == CHOOSE k \in 1..Len(completed) : completed[k] = d

\* C7: main prints one outcome for each discovered repository (the unit's line
\* or a critical line), only after the unit ended, in the order in which the
\* units ended; and a run that has returned printed the outcome of every
\* discovered repository.
C7_OneOutcomeInCompletionOrder ==
    /\ Len(console) = Len(reported)
    /\ \A n \in 1..Len(reported) :
          /\ reported[n] \in range(repos)
          /\ unit[reported[n]].pc = "done"
          /\ \A m \in 1..Len(reported) : m # n => reported[m] # reported[n]
          /\ \A m \in 1..(n - 1) :
                completion_rank(reported[m]) < completion_rank(reported[n])
    /\ exit_status = "zero" => range(reported) = range(repos)

\* C10: truncating an already truncated text again with the same budget gives
\* the same text, whatever the text and the budget.
C10_TruncationIdempotent ==
    trunc_pc = 2 => trunc_text[3] = trunc_text[2]

\* text t holds a '#' with a digit right after it
has_issue_token(t) ==
    \E k \in 1..(Len(t) - 1) : t[k] = "#" /\ t[k + 1] \in Digits

\* text t holds two whitespace characters in a row
has_doubled_space(t) ==
    \E k \in 1..(Len(t) - 1) : is_space(t[k]) /\ is_space(t[k + 1])

\* text t starts or ends with whitespace
has_outer_space(t) ==
    t # <<>> /\ (is_space(t[1]) \/ is_space(t[Len(t)]))

\* C11: for every raw commit message, what clean_message returns holds no '#'
\* followed by digits, no run of two or more whitespace characters, and no
\* leading or trailing whitespace.
C11_CleanMessageTidy ==
    clean_pc = 1 =>
        /\ ~has_issue_token(clean_out)
        /\ ~has_doubled_space(clean_out)
        /\ ~has_outer_space(clean_out)

\* discovery failed: main has looked and found no repository to submit
discovery_failed == main_pc # "start" /\ repos = <<>>

\* C12: the run ends non-zero exactly when discovery fails (the base directory
\* is missing or none of its subdirectories holds a repository store), and then
\* no unit was dispatched; once a repository is discovered the run ends zero,
\* whatever the outcomes of the units.
C12_ExitStatusReflectsDiscovery ==
    /\ discovery_failed =>
          /\ ~base_exists \/ \A d \in range(listing) : ~store[d]
          /\ \A d \in Dirs : unit[d].pc = "idle"
    /\ exit_status # "running" =>
          (exit_status = "nonzero" <=> discovery_failed)

\* the filter rejects the commit at position k of d's walk
filtered_out(d, k) ==
    LET c == walked(d)[k]
    IN  \/ named_in_C8(strip(c.subject))
        \/ REGEX_FILTER_MERGE(strip(c.subject))
        \/ REGEX_FILTER_REVERT(strip(c.subject))
        \/ args.skip_bot_commits /\ BOT_PATTERN(strip(c.author))

\* C13: within one unit the filter comes before any diff work: for a commit
\* the filter rejects (merge/revert/squash/fixup subject, or bot author with
\* skip-bot-commits on) neither the diff retrieval nor the file-list retrieval
\* is ever issued.
C13_FilterBeforeDiff ==
    \A d \in Dirs :
        \A k \in 1..Len(walked(d)) :
            filtered_out(d, k) =>
                /\ walked(d)[k].hash \notin range(unit[d].diff_calls)
                /\ walked(d)[k].hash \notin range(unit[d].files_calls)

\* C13's case: with skip-bot-commits on, a unit ended whose loop went past a
\* commit rejected for its subject and one rejected for its bot author, and
\* that issued both retrievals for another commit
C13_Witness ==
    \E d \in Dirs :
        /\ loop_ended(d)
        /\ args.skip_bot_commits
        /\ unit[d].diff_calls # <<>>
        /\ unit[d].files_calls # <<>>
        /\ \E k \in iterations_over(d) : named_in_C8(walked(d)[k].subject)
        /\ \E k \in iterations_over(d) :
              /\ ~named_in_C8(walked(d)[k].subject)
              /\ BOT_PATTERN(walked(d)[k].author)

\* the window C14 states for position k of d's walk: the lines of the walked
\* positions k + 1 .. min(k + 5, N), positions counted from 1, in that order
unfiltered_window(d, k) ==
    LET N == Len(walked(d))
        last == IF k + 5 <= N THEN k + 5 ELSE N
    IN  [j \in 1..(last - k) |->
            [hash7 |-> walked(d)[k + j].hash[1],
             subject |-> strip(walked(d)[k + j].subject)]]

\* C14: the window is taken from the unfiltered walk and the max-commits cap
\* does not shorten it: the window of every candidate that passed the filter,
\* and of every record written, is exactly the lines of the (up to) five walked
\* commits after it, whether the filter rejects them or not and whether they
\* lie within the cap or not.
C14_WindowFromUnfilteredWalk ==
    \A d \in Dirs :
        /\ unit[d].pc \in {"show", "names"} =>
              unit[d].recent_context = unfiltered_window(d, unit[d].i + 1)
        /\ entered_loop(d) =>
              \A n \in 1..Len(out_files[d].records) :
                  LET rec == out_files[d].records[n]
                  IN  rec.recent_commits_message =
                          unfiltered_window(d, position(d, rec.commit))

\* C14's case: three commits walked and max-commits = 2; both candidates have a
\* record, and the window of each ends with the line of the third commit, which
\* is beyond the cap and which the filter rejects
C14_Witness ==
    \E d \in Dirs :
        /\ loop_ended(d)
        /\ args.max_commits = 2
        /\ Len(walked(d)) = 3
        /\ Len(out_files[d].records) = 2
        /\ filtered_out(d, 3)
        /\ \A n \in 1..2 :
              LET w == out_files[d].records[n].recent_commits_message
              IN  /\ Len(w) = 3 - n
                  /\ w[Len(w)].hash7 = walked(d)[3].hash[1]

\* C15: in every interleaving of the pool no two units open or write the same
\* output file: the repositories submitted are distinct subdirectories of the
\* base directory, their output paths are pairwise distinct, and a file has at
\* most one writer in the whole run.
C15_OneWriterPerFile ==
    /\ \A j, k \in 1..Len(repos) :
          j # k =>
              /\ repos[j] # repos[k]
              /\ output_file(repo_path(repos[j])) # output_file(repo_path(repos[k]))
    /\ \A n \in DOMAIN out_files : Cardinality(out_files[n].writers) <= 1

\* C15's case: two units are in their loops at the same time, each has written
\* a record, and each file has its own unit as its writer
C15_Witness ==
    \E d, e \in Dirs :
        /\ d # e
        /\ {d, e} \subseteq running
        /\ unit[d].pc \in {"loop", "show", "names"}
        /\ unit[e].pc \in {"loop", "show", "names"}
        /\ out_files[output_file(repo_path(d))].writers = {d}
        /\ out_files[output_file(repo_path(e))].writers = {e}
        /\ Len(out_files[output_file(repo_path(d))].records) >= 1
        /\ Len(out_files[output_file(repo_path(e))].records) >= 1

\* the unit on d returned 'Extracted N'
extracted(d) ==
    /\ unit[d].pc = "done"
    /\ unit[d].result.kind = "returned"
    /\ unit[d].result.head = "Extracted"

\* C16: when a unit returns 'Extracted N', its output file holds N records,
\* every record is of a candidate commit (one of the max-commits newest) that
\* passed the filter and whose diff and file list were both retrieved, no two
\* records are of the same commit, and the records are in walked order.
C16_ExtractedCountsRecords ==
    \A d \in Dirs :
        extracted(d) =>
            LET recs == out_files[output_file(repo_path(d))].records
            IN  /\ Len(recs) = unit[d].result.count
                /\ \A n \in 1..Len(recs) :
                      \E k \in 1..Len(walked(d)) :
                          /\ recs[n].commit = walked(d)[k].hash
                          /\ k <= args.max_commits
                          /\ ~filtered_out(d, k)
                          /\ walked(d)[k].show = "ok"
                          /\ walked(d)[k].names = "ok"
                /\ \A m, n \in 1..Len(recs) :
                      m < n => position(d, recs[m].commit) < position(d, recs[n].commit)

\* C16's case: a unit returned 'Extracted N' with N >= 2 after its loop went
\* past a commit the filter rejects and a commit whose diff git does not return
C16_Witness ==
    \E d \in Dirs :
        /\ extracted(d)
        /\ unit[d].result.count >= 2
        /\ \E k \in iterations_over(d) : filtered_out(d, k)
        /\ \E k \in iterations_over(d) :
              ~filtered_out(d, k) /\ walked(d)[k].show # "ok"

=============================================================================
